---- MODULE Spec2Model ----
(***************************************************************************)
(* gql-generator (src/index.js): for every root field of a GraphQL schema  *)
(* the program synthesises a query document selecting everything that is   *)
(* reachable from the field.                                               *)
(*                                                                         *)
(* Text is modelled line by line.  A generated string is the sequence of   *)
(* its lines; the empty string is the empty sequence; join('\n') of        *)
(* non-empty strings is concatenation.  A line is a record                 *)
(*   k     "field" | "typename" | "frag" | "close"                         *)
(*   ind   number of four-space indentation units in front of it           *)
(*   name  the field name ("field") or the type name ("frag")              *)
(*   alias the type name T of an alias `name_T: name`, "" when not aliased *)
(*   args  the call-site list `(name: $var, ...)`                          *)
(*   brace TRUE when the line ends with an opening brace                   *)
(*   of    the type that declares the field ("field"), or the abstract     *)
(*         type whose fragment this is ("frag"); it identifies the schema  *)
(*         element the line was printed for                                *)
(***************************************************************************)
EXTENDS Integers, Sequences, FiniteSets, TLC

VARIABLES schema, depthLimit, includeDeprecatedFields, includeCrossReferences,
          pc, idx, outputFolderName, files, query, indexJs, indexJsExportAll,
          argumentsDict, duplicateArgCounts, crossReferenceKeyList

vars == <<schema, depthLimit, includeDeprecatedFields, includeCrossReferences,
          pc, idx, outputFolderName, files, query, indexJs, indexJsExportAll,
          argumentsDict, duplicateArgCounts, crossReferenceKeyList>>

(* Bounds of the model *)
MaxDepthLimit == 2
MaxCallDepth == 10

----------------------------------------------------------------------------
(* Schema access                                                           *)

Range(s) == {s[i] : i \in 1..Len(s)}

(* field.type.toJSON().replace(/[[\]!]/g, ''): a type is the sequence of   *)
(* the tokens of its rendering, e.g. <<"[", "A", "!", "]">>                *)
StripWrappers(t) == SelectSeq(t, LAMBDA c : c \notin {"[", "]", "!"})
NamedTypeOf(t) == StripWrappers(t)[1]

(* isEqualType of graphql-js: same wrappers around the same named type     *)
isEqualType(t1, t2) == t1 = t2

getType(typeName) == schema.types[typeName]

(* type.getFields()[name] *)
getField(typeName, name) ==
  LET fs == getType(typeName).fields
  IN fs[CHOOSE i \in 1..Len(fs) : fs[i].name = name]

(* Object.keys(type.getFields()) *)
FieldNames(typeName) ==
  LET fs == getType(typeName).fields
  IN [i \in 1..Len(fs) |-> fs[i].name]

(* curType.getFields is defined for Object and Interface types only *)
HasGetFields(typeName) == getType(typeName).kind \in {"OBJECT", "INTERFACE"}

(* gqlSchema.getPossibleTypes(interface), in type-map order *)
getPossibleTypes(typeName) ==
  SelectSeq(schema.order, LAMBDA t : typeName \in getType(t).interfaces)

----------------------------------------------------------------------------
(* Lines                                                                   *)

FieldLine(ind, of, name, args) ==
  [k |-> "field", ind |-> ind, name |-> name, alias |-> "", args |-> args,
   brace |-> FALSE, of |-> of]
TypenameLine(ind) ==
  [k |-> "typename", ind |-> ind, name |-> "__typename", alias |-> "",
   args |-> <<>>, brace |-> FALSE, of |-> ""]
FragLine(ind, typeName, of) ==
  [k |-> "frag", ind |-> ind, name |-> typeName, alias |-> "", args |-> <<>>,
   brace |-> TRUE, of |-> of]
CloseLine(ind) ==
  [k |-> "close", ind |-> ind, name |-> "", alias |-> "", args |-> <<>>,
   brace |-> FALSE, of |-> ""]

(* indent(string, amount): '    '.repeat(amount) in front of every line *)
indent(q, amount) == [i \in 1..Len(q) |-> [q[i] EXCEPT !.ind = @ + amount]]

(* unindent(string, amount): removes the prefix from the lines that have it *)
unindent(q, amount) ==
  [i \in 1..Len(q) |-> [q[i] EXCEPT !.ind = IF @ >= amount THEN @ - amount ELSE @]]

----------------------------------------------------------------------------
(* Argument dictionaries.  A dictionary is the sequence of its entries     *)
(* [var, arg] in insertion order (the key order of a JS object).           *)

DictHas(dict, key) == \E i \in 1..Len(dict) : dict[i].var = key

(* o[key] = arg *)
DictSet(dict, key, arg) ==
  IF DictHas(dict, key)
  THEN [i \in 1..Len(dict) |->
          IF dict[i].var = key THEN [var |-> key, arg |-> arg] ELSE dict[i]]
  ELSE Append(dict, [var |-> key, arg |-> arg])

RECURSIVE DictAssign(_, _)
(* Object.assign(target, source) *)
DictAssign(target, source) ==
  IF source = <<>> THEN target
  ELSE DictAssign(DictSet(target, Head(source).var, Head(source).arg), Tail(source))

(* `${arg.name}${index}` *)
SuffixedName(name, index) == name \o ToString(index)

RECURSIVE ArgsReduce(_, _, _, _)
(* field.args.reduce(...) of getFieldArgsDict: returns the field's          *)
(* dictionary o and the updated duplicateArgCounts                         *)
ArgsReduce(args, o, dups, allArgsDict) ==
  IF args = <<>> THEN [dict |-> o, dups |-> dups]
  ELSE LET arg == Head(args)
       IN IF arg.name \in DOMAIN dups
          THEN LET index == dups[arg.name] + 1
               IN ArgsReduce(Tail(args), DictSet(o, SuffixedName(arg.name, index), arg),
                             [dups EXCEPT ![arg.name] = index], allArgsDict)
          ELSE IF DictHas(allArgsDict, arg.name)
          THEN ArgsReduce(Tail(args), DictSet(o, SuffixedName(arg.name, 1), arg),
                          (arg.name :> 1) @@ dups, allArgsDict)
          ELSE ArgsReduce(Tail(args), DictSet(o, arg.name, arg), dups, allArgsDict)

getFieldArgsDict(field, dups, allArgsDict) ==
  ArgsReduce(field.args, <<>>, dups, allArgsDict)

(* `${arg.name}: $${varName}` for every entry of the dictionary *)
getArgsToVarsStr(dict) ==
  [i \in 1..Len(dict) |-> [name |-> dict[i].arg.name, var |-> dict[i].var]]

(* `$${varName}: ${arg.type}` for every entry of the dictionary *)
getVarsToTypesStr(dict) ==
  [i \in 1..Len(dict) |-> [var |-> dict[i].var, type |-> dict[i].arg.type]]

----------------------------------------------------------------------------
(* generateQuery.  The traversal state st holds the three objects that are *)
(* passed by reference down the call chain (argumentsDict,                 *)
(* duplicateArgCounts, crossReferenceKeyList) and the flag overflow: a     *)
(* call nested deeper than MaxCallDepth exhausts the call stack, the       *)
(* RangeError unwinds every pending call and no document is produced.      *)

EmptyMap == [n \in {} |-> 0]

(* `${curParentName}To${curName}Key` *)
CrossReferenceKey(curParentName, curName) == curParentName \o "To" \o curName \o "Key"

(* crossReferenceKeyList.indexOf(crossReferenceKey) !== -1 *)
KeyRecorded(keys, key) == \E i \in 1..Len(keys) : keys[i] = key

(* Variant: the recorded keys are not consulted *)
PrunedByDepthOnly(keys, key, curDepth, fromUnion) ==
  (IF fromUnion THEN curDepth - 2 ELSE curDepth) > depthLimit

(* The condition of the early `return ''` *)
Pruned(keys, key, curDepth, fromUnion) ==
  \/ ~includeCrossReferences /\ KeyRecorded(keys, key)
  \/ (IF fromUnion THEN curDepth - 2 ELSE curDepth) > depthLimit

(* if (!fromUnion) crossReferenceKeyList.push(crossReferenceKey) *)
RecordKey(keys, key, fromUnion) == IF fromUnion THEN keys ELSE Append(keys, key)

(* The filter "Exclude deprecated fields" over Object.keys(curType.getFields()) *)
ChildKeys(typeName) ==
  SelectSeq(FieldNames(typeName),
            LAMBDA n : includeDeprecatedFields \/ ~getField(typeName, n).deprecated)

(* Variant: a field without a child selection is rendered as a leaf *)
RendersFieldAlways(typeName, childQuery) == TRUE

(* if (!(curType.getFields && !childQuery)) *)
RendersField(typeName, childQuery) == ~(HasGetFields(typeName) /\ childQuery = <<>>)

(* The rendering of the field itself: its name, its call-site list and the  *)
(* braces around a non-empty child selection                               *)
RenderField(field, of, curDepth, childQuery, st) ==
  LET fd == IF Len(field.args) > 0
            THEN getFieldArgsDict(field, st.duplicateArgCounts, st.argumentsDict)
            ELSE [dict |-> <<>>, dups |-> st.duplicateArgCounts]
      line == FieldLine(curDepth, of, field.name, getArgsToVarsStr(fd.dict))
  IN [queryStr |-> IF childQuery # <<>>
                   THEN <<[line EXCEPT !.brace = TRUE]>> \o childQuery \o <<CloseLine(curDepth)>>
                   ELSE <<line>>,
      st |-> [st EXCEPT !.argumentsDict = DictAssign(@, fd.dict),
                        !.duplicateArgCounts = fd.dups]]

(* types.reduce((acc, type) => [...acc, ...Object.values(type.getFields())], []) *)
RECURSIVE AllFields(_)
AllFields(types) ==
  IF types = <<>> THEN <<>>
  ELSE getType(Head(types)).fields \o AllFields(Tail(types))

(* Variant: two types conflict only when their named types differ *)
ConflictFieldsByNamedType(types) ==
  LET allFields == AllFields(types)
  IN {allFields[i].name : i \in
        {i \in 1..Len(allFields) :
           \E j \in 1..Len(allFields) :
              /\ i # j
              /\ allFields[i].name = allFields[j].name
              /\ NamedTypeOf(allFields[i].type) # NamedTypeOf(allFields[j].type)}}

(* conflictFields: the names of the fields for which another field of the   *)
(* list has the same name and a type that is not equal; only membership    *)
(* (includes) is asked of it, so it is kept as a set                       *)
ConflictFields(types) ==
  LET allFields == AllFields(types)
  IN {allFields[i].name : i \in
        {i \in 1..Len(allFields) :
           \E j \in 1..Len(allFields) :
              /\ i # j
              /\ allFields[i].name = allFields[j].name
              /\ ~isEqualType(allFields[i].type, allFields[j].type)}}

(* queryStr.replace(cur, `${cur}_${type.name}: ${cur}`): the first          *)
(* occurrence of cur in the text is the field name that opens it           *)
AliasField(q, cur, typeName) ==
  IF q[1].name = cur THEN [q EXCEPT ![1].alias = typeName] ELSE q

(* queryStr.replace(/\n(\s*\})$/, `\n${insert}\n$1`): the text goes in front *)
(* of a closing brace that is the last line, provided a line precedes it   *)
InsertBeforeClosingBrace(q, insert) ==
  IF Len(q) >= 2 /\ q[Len(q)].k = "close"
  THEN SubSeq(q, 1, Len(q) - 1) \o insert \o <<q[Len(q)]>>
  ELSE q

RECURSIVE generateQuery(_, _, _, _, _, _)
RECURSIVE MapChildren(_, _, _, _, _, _)
RECURSIVE MapFragmentFields(_, _, _, _, _, _)
RECURSIVE MapPossibleTypes(_, _, _, _, _, _, _)
RECURSIVE UnionLoop(_, _, _, _, _)

(* names.map(cur => generateQuery(cur, ...).queryStr).filter(Boolean).join('\n') *)
MapChildren(names, parentType, parentName, st, depth, fromUnion) ==
  IF names = <<>> THEN [queryStr |-> <<>>, st |-> st]
  ELSE LET r == generateQuery(Head(names), parentType, parentName, st, depth, fromUnion)
           rest == MapChildren(Tail(names), parentType, parentName, r.st, depth, fromUnion)
       IN [queryStr |-> r.queryStr \o rest.queryStr, st |-> rest.st]

(* The map over the non-common fields of one possible type, with the alias  *)
(* of the conflicting field names                                          *)
MapFragmentFields(names, typeName, curName, st, depth, conflictFields) ==
  IF names = <<>> THEN [queryStr |-> <<>>, st |-> st]
  ELSE LET cur == Head(names)
           r == generateQuery(cur, typeName, curName, st, depth, FALSE)
           queryStr == IF r.queryStr # <<>> /\ cur \in conflictFields
                       THEN AliasField(r.queryStr, cur, typeName)
                       ELSE r.queryStr
           rest == MapFragmentFields(Tail(names), typeName, curName, r.st, depth, conflictFields)
       IN [queryStr |-> queryStr \o rest.queryStr, st |-> rest.st]

(* types.map(type => ...).filter(Boolean) of the interface expansion: one   *)
(* `... on Type { }` per possible type with a non-empty selection          *)
MapPossibleTypes(types, iface, commonFields, conflictFields, curName, st, curDepth) ==
  IF types = <<>> THEN [queryStr |-> <<>>, st |-> st]
  ELSE LET type == Head(types)
           depth == curDepth + 1
           names == SelectSeq(FieldNames(type), LAMBDA f : f \notin Range(commonFields))
           r == MapFragmentFields(names, type, curName, st, depth, conflictFields)
           frag == IF r.queryStr # <<>>
                   THEN <<FragLine(0, type, iface)>> \o unindent(r.queryStr, depth - 1)
                        \o <<CloseLine(0)>>
                   ELSE <<>>
           rest == MapPossibleTypes(Tail(types), iface, commonFields, conflictFields,
                                    curName, r.st, curDepth)
       IN [queryStr |-> frag \o rest.queryStr, st |-> rest.st]

(* The for loop of the union expansion: one fragment per member type with a *)
(* non-empty selection ("Exclude empty unions")                            *)
UnionLoop(types, union, curName, st, curDepth) ==
  IF types = <<>> THEN [queryStr |-> <<>>, st |-> st]
  ELSE LET valueTypeName == Head(types)
           r == MapChildren(FieldNames(valueTypeName), valueTypeName, curName, st,
                            curDepth + 2, TRUE)
           frag == IF r.queryStr # <<>>
                   THEN <<FragLine(curDepth + 1, valueTypeName, union)>> \o r.queryStr
                        \o <<CloseLine(curDepth + 1)>>
                   ELSE <<>>
           rest == UnionLoop(Tail(types), union, curName, r.st, curDepth)
       IN [queryStr |-> frag \o rest.queryStr, st |-> rest.st]

(* Interface expansion: __typename and the fragments go in front of the     *)
(* closing brace of the field                                              *)
InterfaceExpansion(own, curTypeName, curName, curDepth) ==
  LET types == getPossibleTypes(curTypeName)
      commonFields == FieldNames(curTypeName)
      conflictFields == ConflictFields(types)
      childQuery == MapPossibleTypes(types, curTypeName, commonFields, conflictFields,
                                     curName, own.st, curDepth)
      interfaceQuery == <<TypenameLine(0)>> \o childQuery.queryStr
  IN IF Len(types) > 0
     THEN [queryStr |-> InsertBeforeClosingBrace(own.queryStr,
                                                 indent(interfaceQuery, curDepth + 1)),
           st |-> childQuery.st]
     ELSE own

(* Union expansion: `{`, __typename, the fragments and `}` are appended      *)
UnionExpansion(own, curTypeName, curName, curDepth) ==
  LET types == getType(curTypeName).members
      q == own.queryStr
      loop == UnionLoop(types, curTypeName, curName, own.st, curDepth)
  IN IF Len(types) > 0
     THEN [queryStr |-> (IF q = <<>> THEN <<>>
                         ELSE [q EXCEPT ![Len(q)].brace = TRUE])
                        \o <<TypenameLine(curDepth + 1)>> \o loop.queryStr
                        \o <<CloseLine(curDepth)>>,
           st |-> loop.st]
     ELSE own

(* generateQuery(curName, curParentType, curParentName, argumentsDict,       *)
(* duplicateArgCounts, crossReferenceKeyList, curDepth, fromUnion).         *)
(* isString tells the early `return ''` from the returned object.          *)
generateQuery(curName, curParentType, curParentName, st, curDepth, fromUnion) ==
  IF st.overflow THEN [queryStr |-> <<>>, isString |-> FALSE, st |-> st]
  ELSE IF curDepth > MaxCallDepth
  THEN [queryStr |-> <<>>, isString |-> FALSE, st |-> [st EXCEPT !.overflow = TRUE]]
  ELSE
  LET field == getField(curParentType, curName)
      curTypeName == NamedTypeOf(field.type)
      crossReferenceKey == CrossReferenceKey(curParentName, curName)
  IN IF HasGetFields(curTypeName)
        /\ Pruned(st.crossReferenceKeyList, crossReferenceKey, curDepth, fromUnion)
     THEN [queryStr |-> <<>>, isString |-> TRUE, st |-> st]
     ELSE
     LET st1 == IF HasGetFields(curTypeName)
                THEN [st EXCEPT !.crossReferenceKeyList =
                                   RecordKey(@, crossReferenceKey, fromUnion)]
                ELSE st
         children == IF HasGetFields(curTypeName)
                     THEN MapChildren(ChildKeys(curTypeName), curTypeName, curName, st1,
                                      curDepth + 1, fromUnion)
                     ELSE [queryStr |-> <<>>, st |-> st1]
         own == IF RendersField(curTypeName, children.queryStr)
                THEN RenderField(field, curParentType, curDepth, children.queryStr,
                                 children.st)
                ELSE [queryStr |-> <<>>, st |-> children.st]
         iface == IF getType(curTypeName).kind = "INTERFACE"
                  THEN InterfaceExpansion(own, curTypeName, curName, curDepth)
                  ELSE own
         union == IF getType(curTypeName).kind = "UNION"
                  THEN UnionExpansion(iface, curTypeName, curName, curDepth)
                  ELSE iface
     IN [queryStr |-> union.queryStr, isString |-> FALSE, st |-> union.st]

----------------------------------------------------------------------------
(* Strings that are matched or converted character by character (the name  *)
(* of a root type, `description` in generateFile) are looked up as the     *)
(* sequence of their characters.                                           *)

RootTypeNames ==
  {"Query", "Mutation", "Subscription", "RootQuery", "query", "QUERY", "Root",
   "LiveQuerySubscription"}

Chars(name) ==
  CASE name = "Query" -> <<"Q", "u", "e", "r", "y">>
    [] name = "Mutation" -> <<"M", "u", "t", "a", "t", "i", "o", "n">>
    [] name = "Subscription" -> <<"S", "u", "b", "s", "c", "r", "i", "p", "t", "i", "o", "n">>
    [] name = "RootQuery" -> <<"R", "o", "o", "t", "Q", "u", "e", "r", "y">>
    [] name = "query" -> <<"q", "u", "e", "r", "y">>
    [] name = "QUERY" -> <<"Q", "U", "E", "R", "Y">>
    [] name = "Root" -> <<"R", "o", "o", "t">>
    [] name = "mutation" -> <<"m", "u", "t", "a", "t", "i", "o", "n">>
    [] name = "subscription" -> <<"s", "u", "b", "s", "c", "r", "i", "p", "t", "i", "o", "n">>
    [] name = "LiveQuerySubscription" -> <<"L", "i", "v", "e", "Q", "u", "e", "r", "y", "S", "u", "b", "s", "c", "r", "i", "p", "t", "i", "o", "n">>

UpperToLower ==
  ("A" :> "a") @@ ("B" :> "b") @@ ("C" :> "c") @@ ("D" :> "d") @@
  ("E" :> "e") @@ ("F" :> "f") @@ ("G" :> "g") @@ ("H" :> "h") @@
  ("I" :> "i") @@ ("J" :> "j") @@ ("K" :> "k") @@ ("L" :> "l") @@
  ("M" :> "m") @@ ("N" :> "n") @@ ("O" :> "o") @@ ("P" :> "p") @@
  ("Q" :> "q") @@ ("R" :> "r") @@ ("S" :> "s") @@ ("T" :> "t") @@
  ("U" :> "u") @@ ("V" :> "v") @@ ("W" :> "w") @@ ("X" :> "x") @@
  ("Y" :> "y") @@ ("Z" :> "z")

(* description.toLowerCase() *)
toLowerCase(s) ==
  [i \in 1..Len(s) |-> IF s[i] \in DOMAIN UpperToLower THEN UpperToLower[s[i]] ELSE s[i]]

(* /pat/.test(s) and /pat.*$/.test(s): pat occurs somewhere in s *)
Test(pat, s) ==
  \E i \in 1..(Len(s) - Len(pat) + 1) : SubSeq(s, i, i + Len(pat) - 1) = pat

(* The first switch of generateFile *)
OutputFolderName(description) ==
  LET d == Chars(description)
  IN IF Test(Chars("Mutation"), d) \/ Test(Chars("mutation"), d)
     THEN "mutations"
     ELSE IF Test(Chars("Query"), d) \/ Test(Chars("query"), d)
     THEN "queries"
     ELSE IF Test(Chars("Subscription"), d) \/ Test(Chars("subscription"), d)
     THEN "subscriptions"
     ELSE "undefined"

(* The second switch of generateFile and `queryName || description.toLowerCase()` *)
QueryName(description) ==
  LET d == Chars(description)
  IN IF Test(Chars("Mutation"), d) \/ Test(Chars("mutation"), d)
     THEN Chars("mutation")
     ELSE IF Test(Chars("Query"), d) \/ Test(Chars("query"), d)
     THEN Chars("query")
     ELSE IF Test(Chars("Subscription"), d) \/ Test(Chars("subscription"), d)
     THEN Chars("subscription")
     ELSE toLowerCase(d)

----------------------------------------------------------------------------
(* The driver: main calls generateFile for the mutation, the query and the *)
(* subscription type in this order and writes the top-level index.js.      *)

Kinds == <<"mutation", "query", "subscription">>

NextPc(kind) ==
  CASE kind = "mutation" -> "query"
    [] kind = "query" -> "subscription"
    [] kind = "subscription" -> "index"

(* gqlSchema.getMutationType() / getQueryType() / getSubscriptionType():    *)
(* the name of the type, "" when the schema has none                       *)
RootType(kind) == schema.roots[kind]

(* Variant: the dictionary of the previous traversal is used again *)
SharedArgumentsDict == argumentsDict

(* The default values of the parameters of generateQuery *)
DefaultArgumentsDict == <<>>
DefaultDuplicateArgCounts == EmptyMap
DefaultCrossReferenceKeyList == <<>>
DefaultCurDepth == 1

WriteFile(fs, folder, name, content) == ((<<folder, name>>) :> content) @@ fs

(* `[gqlg warning]: No ... type found in your schema` *)
MissingRootType ==
  /\ pc \in Range(Kinds)
  /\ RootType(pc) = ""
  /\ pc' = NextPc(pc)
  /\ UNCHANGED <<schema, depthLimit, includeDeprecatedFields, includeCrossReferences,
                 idx, outputFolderName, files, query, indexJs, indexJsExportAll,
                 argumentsDict, duplicateArgCounts, crossReferenceKeyList>>

(* generateFile up to the loop over the root fields *)
GenerateFileStart ==
  /\ pc \in Range(Kinds)
  /\ RootType(pc) # ""
  /\ idx = 0
  /\ outputFolderName' = OutputFolderName(RootType(pc))
  /\ indexJs' = <<>>
  /\ idx' = 1
  /\ UNCHANGED <<schema, depthLimit, includeDeprecatedFields, includeCrossReferences,
                 pc, files, query, indexJsExportAll,
                 argumentsDict, duplicateArgCounts, crossReferenceKeyList>>

(* One iteration of Object.keys(obj).forEach for a field that is generated  *)
GenerateRootField ==
  /\ pc \in Range(Kinds)
  /\ RootType(pc) # ""
  /\ idx \in 1..Len(getType(RootType(pc)).fields)
  /\ LET description == RootType(pc)
         field == getType(description).fields[idx]
         type == field.name
         st0 == [argumentsDict |-> DefaultArgumentsDict,
                 duplicateArgCounts |-> DefaultDuplicateArgCounts,
                 crossReferenceKeyList |-> DefaultCrossReferenceKeyList,
                 overflow |-> FALSE]
         queryResult == generateQuery(type, description, "undefined", st0,
                                      DefaultCurDepth, FALSE)
         document == [keyword |-> QueryName(description),
                      name |-> type,
                      header |-> getVarsToTypesStr(queryResult.st.argumentsDict),
                      selection |-> queryResult.queryStr]
     IN /\ includeDeprecatedFields \/ ~field.deprecated
        /\ argumentsDict' = queryResult.st.argumentsDict
        /\ duplicateArgCounts' = queryResult.st.duplicateArgCounts
        /\ crossReferenceKeyList' = queryResult.st.crossReferenceKeyList
        /\ IF queryResult.st.overflow
           THEN (* RangeError: Maximum call stack size exceeded *)
                /\ pc' = "RangeError"
                /\ UNCHANGED <<idx, files, query, indexJs>>
           ELSE IF queryResult.isString
           THEN (* '' has no argumentsDict: Object.entries(undefined) throws *)
                /\ pc' = "TypeError"
                /\ UNCHANGED <<idx, files, query, indexJs>>
           ELSE /\ query' = document
                /\ files' = WriteFile(files, outputFolderName, type, document)
                /\ indexJs' = Append(indexJs, type)
                /\ idx' = idx + 1
                /\ pc' = pc
  /\ UNCHANGED <<schema, depthLimit, includeDeprecatedFields, includeCrossReferences,
                 outputFolderName, indexJsExportAll>>

(* One iteration for a deprecated root field: "Only process non-deprecated  *)
(* queries/mutations"                                                      *)
SkipDeprecatedRootField ==
  /\ pc \in Range(Kinds)
  /\ RootType(pc) # ""
  /\ idx \in 1..Len(getType(RootType(pc)).fields)
  /\ ~(includeDeprecatedFields \/ getType(RootType(pc)).fields[idx].deprecated = FALSE)
  /\ idx' = idx + 1
  /\ UNCHANGED <<schema, depthLimit, includeDeprecatedFields, includeCrossReferences,
                 pc, outputFolderName, files, query, indexJs, indexJsExportAll,
                 argumentsDict, duplicateArgCounts, crossReferenceKeyList>>

(* generateFile after the loop: the folder's index.js and the re-export     *)
GenerateFileEnd ==
  /\ pc \in Range(Kinds)
  /\ RootType(pc) # ""
  /\ idx = Len(getType(RootType(pc)).fields) + 1
  /\ files' = WriteFile(files, outputFolderName, "index.js", indexJs)
  /\ indexJsExportAll' = Append(indexJsExportAll, outputFolderName)
  /\ idx' = 0
  /\ pc' = NextPc(pc)
  /\ UNCHANGED <<schema, depthLimit, includeDeprecatedFields, includeCrossReferences,
                 outputFolderName, query, indexJs,
                 argumentsDict, duplicateArgCounts, crossReferenceKeyList>>

(* fs.writeFileSync(path.join(destDirPath, 'index.js'), indexJsExportAll)   *)
WriteIndex ==
  /\ pc = "index"
  /\ files' = WriteFile(files, "", "index.js", indexJsExportAll)
  /\ pc' = "done"
  /\ UNCHANGED <<schema, depthLimit, includeDeprecatedFields, includeCrossReferences,
                 idx, outputFolderName, query, indexJs, indexJsExportAll,
                 argumentsDict, duplicateArgCounts, crossReferenceKeyList>>

Next ==
  \/ MissingRootType
  \/ GenerateFileStart
  \/ GenerateRootField
  \/ SkipDeprecatedRootField
  \/ GenerateFileEnd
  \/ WriteIndex

----------------------------------------------------------------------------
(* The schemas.  Every schema has the object types A and B, the interface  *)
(* I, the union U and the same fields on each of its root types:           *)
(*                                                                         *)
(*   interface I { c: Int }                                                *)
(*   type A [implements I] { [c: Int] t(...): String! [link] }             *)
(*   type B [implements I] { [c: Int] t(...): String or String! [link] }   *)
(*   link: a: A! (or a: A), b: [B!]!, i: I or u: U                         *)
(*   union U = A or A | B                                                  *)
(*   type <Root> { ra(id: Int): A  ri: I  ru: [U]  old: String @deprecated }*)
(*                                                                         *)
(* A parameter record chooses the deprecation markers, the arguments, the  *)
(* links between the types, the implementations, the members and the names *)
(* of the root types.                                                      *)

Named(n) == <<n>>
NonNull(t) == t \o <<"!">>
List(t) == <<"[">> \o t \o <<"]">>

Field(name, type, args, deprecated) ==
  [name |-> name, type |-> type, args |-> args, deprecated |-> deprecated]
Arg(name, type) == [name |-> name, type |-> type]

Scalar == [kind |-> "SCALAR", fields |-> <<>>, interfaces |-> {}, members |-> <<>>]
Object(fields, interfaces) ==
  [kind |-> "OBJECT", fields |-> fields, interfaces |-> interfaces, members |-> <<>>]
Interface(fields) ==
  [kind |-> "INTERFACE", fields |-> fields, interfaces |-> {}, members |-> <<>>]
Union(members) ==
  [kind |-> "UNION", fields |-> <<>>, interfaces |-> {}, members |-> members]

ArgLists ==
  [none |-> <<>>,
   id |-> <<Arg("id", NonNull(Named("ID")))>>,
   id1 |-> <<Arg("id1", Named("Int"))>>,
   both |-> <<Arg("id", Named("Int")), Arg("id1", Named("String"))>>]

LinkField(link) ==
  CASE link = "none" -> <<>>
    [] link = "a" -> <<Field("a", NonNull(Named("A")), <<>>, FALSE)>>
    [] link = "an" -> <<Field("a", Named("A"), <<>>, FALSE)>>
    [] link = "b" -> <<Field("b", NonNull(List(NonNull(Named("B")))), <<>>, FALSE)>>
    [] link = "i" -> <<Field("i", Named("I"), <<>>, FALSE)>>
    [] link = "u" -> <<Field("u", Named("U"), <<>>, FALSE)>>

CommonField(deprecated) == Field("c", Named("Int"), <<>>, deprecated)

RootFields ==
  <<Field("ra", Named("A"), <<Arg("id", Named("Int"))>>, FALSE),
    Field("ri", Named("I"), <<>>, FALSE),
    Field("ru", List(Named("U")), <<>>, FALSE),
    Field("old", Named("String"), <<>>, TRUE)>>

RECURSIVE RootTypesMap(_)
RootTypesMap(names) ==
  IF names = {} THEN EmptyMap
  ELSE LET n == CHOOSE x \in names : TRUE
       IN (n :> Object(RootFields, {})) @@ RootTypesMap(names \ {n})

MkSchema(p) ==
  LET implA == p.impl \in {"A", "AB"}
      implB == p.impl \in {"AB"}
      typeA == Object((IF implA THEN <<CommonField(p.iDep)>> ELSE <<>>)
                      \o <<Field("t", NonNull(Named("String")), ArgLists[p.aArgs], p.aDep)>>
                      \o LinkField(p.aLink),
                      IF implA THEN {"I"} ELSE {})
      typeB == Object((IF implB THEN <<CommonField(p.iDep)>> ELSE <<>>)
                      \o <<Field("t", IF p.bNonNull THEN NonNull(Named("String"))
                                      ELSE Named("String"),
                                 ArgLists[p.bArgs], p.bDep)>>
                      \o LinkField(p.bLink),
                      IF implB THEN {"I"} ELSE {})
      rootNames == {p.roots[k] : k \in DOMAIN p.roots} \ {""}
  IN [types |-> ("Int" :> Scalar) @@ ("String" :> Scalar) @@ ("ID" :> Scalar)
                @@ ("A" :> typeA) @@ ("B" :> typeB)
                @@ ("I" :> Interface(<<CommonField(p.iDep)>>))
                @@ ("U" :> Union(p.members))
                @@ RootTypesMap(rootNames),
      order |-> <<"I", "A", "B", "U">>,
      roots |-> p.roots]

Roots(m, q, s) == [mutation |-> m, query |-> q, subscription |-> s]
StandardRoots == Roots("Mutation", "Query", "")

Params(aD, aAs, aL, bN, bD, bAs, bL, iD, im, ms, rs) ==
  [aDep : aD, aArgs : aAs, aLink : aL, bNonNull : bN, bDep : bD, bArgs : bAs,
   bLink : bL, iDep : iD, impl : im, members : ms, roots : rs]

(* Arguments and their collisions *)
ArgumentSchemas ==
  Params({FALSE}, {"none", "id", "id1"}, {"none", "b"}, {FALSE}, {FALSE},
         {"none", "id", "both"}, {"none"}, BOOLEAN, {"none", "A", "AB"},
         {<<"A", "B">>}, {StandardRoots})

(* Deprecation markers and conflicting field types *)
DeprecationSchemas ==
  Params(BOOLEAN, {"none", "id"}, {"none"}, BOOLEAN, BOOLEAN, {"none"}, {"none"},
         BOOLEAN, {"none", "A", "AB"}, {<<"A", "B">>}, {StandardRoots})

(* The type graph and its cycles *)
GraphSchemas ==
  Params(BOOLEAN, {"none"}, {"none", "a", "b", "i", "u"}, {TRUE}, {FALSE}, {"none"},
         {"none", "a", "an", "i", "u"}, {FALSE}, {"none", "A", "AB"},
         {<<"A">>, <<"A", "B">>}, {StandardRoots})

(* The names of the root types *)
RootSchemas ==
  Params({FALSE}, {"id"}, {"none"}, {FALSE}, {FALSE}, {"none"}, {"none"}, {FALSE},
         {"AB"}, {<<"A", "B">>},
         {Roots("Mutation", "Query", "Subscription"), Roots("", "RootQuery", ""),
          Roots("", "query", ""), Roots("", "QUERY", ""), Roots("", "Root", ""),
          Roots("", "Query", "LiveQuerySubscription")})

Schemas == ArgumentSchemas \cup DeprecationSchemas \cup GraphSchemas \cup RootSchemas

InitWith(params, limits) ==
  /\ \E p \in params : schema = MkSchema(p)
  /\ depthLimit \in limits
  /\ includeDeprecatedFields \in BOOLEAN
  /\ includeCrossReferences \in BOOLEAN
  /\ pc = "mutation"
  /\ idx = 0
  /\ outputFolderName = ""
  /\ files = EmptyMap
  /\ query = [keyword |-> <<>>, name |-> "", header |-> <<>>, selection |-> <<>>]
  /\ indexJs = <<>>
  /\ indexJsExportAll = <<>>
  /\ argumentsDict = <<>>
  /\ duplicateArgCounts = EmptyMap
  /\ crossReferenceKeyList = <<>>

Init == InitWith(Schemas, 1..MaxDepthLimit)

Spec == Init /\ [][Next]_vars

(* Cyclic type graphs under depth limits that exceed the length of a cycle *)
DeepSchemas ==
  Params({FALSE}, {"none"}, {"none", "a", "b"}, {TRUE}, {FALSE}, {"none"},
         {"none", "a"}, {FALSE}, {"none", "AB"}, {<<"A", "B">>}, {StandardRoots})

InitDeep == InitWith(DeepSchemas, 1..(MaxDepthLimit + 3))

SpecDeep == InitDeep /\ [][Next]_vars

----------------------------------------------------------------------------
(* Reading a generated document                                            *)

(* A document was written by the last iteration of the loop of generateFile *)
JustGenerated ==
  /\ pc \in Range(Kinds)
  /\ idx >= 2
  /\ query.name = getType(RootType(pc)).fields[idx - 1].name

RootField == getType(RootType(pc)).fields[idx - 1]

Sel == query.selection

FieldLines == {i \in 1..Len(Sel) : Sel[i].k = "field"}

(* The schema field a field line was printed for *)
SchemaField(i) == getField(Sel[i].of, Sel[i].name)

(* The call-sites `name: $var` of the document: <<line, position>> *)
CallSites == {<<i, j>> \in FieldLines \X (1..2) : j <= Len(Sel[i].args)}

(* The printed text of a selection: the lines without the annotation `of`  *)
Text(q) ==
  [i \in 1..Len(q) |->
     [k |-> q[i].k, ind |-> q[i].ind, name |-> q[i].name, alias |-> q[i].alias,
      args |-> q[i].args, brace |-> q[i].brace]]

----------------------------------------------------------------------------
(* C1: for every schema and every positive depthLimit generateQuery        *)
(* terminates for every root field, cycles through Object, Interface or    *)
(* Union types included: the recursion never nests until the call stack is *)
(* exhausted.                                                              *)
C1_Terminates == pc # "RangeError"

(* C2: with includeDeprecatedFields = false no field that carries a         *)
(* deprecation marker appears in a generated document, however the         *)
(* traversal reaches it.                                                   *)
C2_NoDeprecatedField ==
  ~includeDeprecatedFields => \A i \in FieldLines : ~SchemaField(i).deprecated

(* C3: within one traversal every argument of a rendered field gets a       *)
(* call-site, and no two argument occurrences get the same variable name.  *)
C3_UniqueVariableNames ==
  /\ \A i \in FieldLines :
        /\ Len(Sel[i].args) = Len(SchemaField(i).args)
        /\ \A j \in 1..Len(Sel[i].args) : Sel[i].args[j].name = SchemaField(i).args[j].name
  /\ \A c1, c2 \in CallSites :
        c1 # c2 => Sel[c1[1]].args[c1[2]].var # Sel[c2[1]].args[c2[2]].var

(* C6: with includeDeprecatedFields = false a union member type without a   *)
(* non-deprecated field gets no `... on Member` fragment.                  *)
C6_NoFragmentForDeprecatedMember ==
  ~includeDeprecatedFields =>
    \A i \in 1..Len(Sel) :
      (Sel[i].k = "frag" /\ getType(Sel[i].of).kind = "UNION")
        => \E f \in Range(getType(Sel[i].name).fields) : ~f.deprecated

(* C8: the keyword that opens a document is the keyword of the operation    *)
(* kind its root type is registered as, one of query, mutation,            *)
(* subscription.                                                           *)
C8_OperationKeyword == JustGenerated => query.keyword = Chars(pc)

(* C10: header and selection agree: every variable the header declares is   *)
(* referenced by a call-site of the selection, so none is declared for a   *)
(* field whose text was discarded, and every call-site's variable is       *)
(* declared.                                                               *)
C10_HeaderMatchesCallSites ==
  /\ \A h \in 1..Len(query.header) :
        \E c \in CallSites : Sel[c[1]].args[c[2]].var = query.header[h].var
  /\ \A c \in CallSites :
        \E h \in 1..Len(query.header) : query.header[h].var = Sel[c[1]].args[c[2]].var

----------------------------------------------------------------------------
(* The nesting of the lines of a selection                                 *)

TypeOfLine(i) == NamedTypeOf(SchemaField(i).type)

(* The field lines of Object or Interface type *)
ExpandedLines == {i \in FieldLines : HasGetFields(TypeOfLine(i))}

(* The line that opens the block a line is in, 0 at the top *)
Parent(i) ==
  LET above == {j \in 1..(i - 1) : Sel[j].ind < Sel[i].ind}
  IN IF above = {} THEN 0 ELSE CHOOSE j \in above : \A m \in above : m <= j

(* The lines directly inside the block a line opens *)
Children(i) == {j \in (i + 1)..Len(Sel) : Sel[j].k # "close" /\ Parent(j) = i}

RECURSIVE EnclosingField(_)
(* The nearest field line a line is nested in, 0 at the top *)
EnclosingField(i) ==
  LET pr == Parent(i)
  IN IF pr = 0 THEN 0
     ELSE IF Sel[pr].k = "field" THEN pr
     ELSE EnclosingField(pr)

RECURSIVE InUnionBranch(_)
(* The line is inside a fragment of a union *)
InUnionBranch(i) ==
  LET pr == Parent(i)
  IN IF pr = 0 THEN FALSE
     ELSE IF Sel[pr].k = "frag" /\ getType(Sel[pr].of).kind = "UNION" THEN TRUE
     ELSE InUnionBranch(pr)

(* The parent-to-field edge a field line was reached by *)
EdgeKey(i) ==
  CrossReferenceKey(IF EnclosingField(i) = 0 THEN "undefined"
                    ELSE Sel[EnclosingField(i)].name,
                    Sel[i].name)

HasFieldNamed(typeName, name) == \E f \in Range(getType(typeName).fields) : f.name = name

Min(a, b) == IF a < b THEN a ELSE b

(* The number of distinct edges on the path from the root field ra before  *)
(* an edge repeats, for the cycles A -> A and A -> B -> A                  *)
CycleEdges ==
  IF HasFieldNamed("A", "a") THEN 3
  ELSE IF HasFieldNamed("A", "b") /\ HasFieldNamed("B", "a") THEN 4
  ELSE 2

OnCycle == HasFieldNamed("A", "a") \/ (HasFieldNamed("A", "b") /\ HasFieldNamed("B", "a"))

(* The scalar field t of A and of B is rendered *)
LeavesRendered ==
  \A t \in {"A", "B"} : includeDeprecatedFields \/ ~getField(t, "t").deprecated

----------------------------------------------------------------------------
PossibleTypes(iface) == {t \in Range(schema.order) : iface \in getType(t).interfaces}

(* The fields of the implementing types, each with its type *)
ImplementedFields(iface) ==
  UNION {{[t |-> t, f |-> f] : f \in Range(getType(t).fields)} : t \in PossibleTypes(iface)}

(* The field names that occur in more than one implementing type with      *)
(* result types that are not equal                                         *)
Conflicting(iface) ==
  {x.f.name : x \in
     {x \in ImplementedFields(iface) :
        \E y \in ImplementedFields(iface) :
           y.t # x.t /\ y.f.name = x.f.name /\ y.f.type # x.f.type}}

CommonNames(iface) == {f.name : f \in Range(getType(iface).fields)}

(* The key under which a field line's value appears in a response *)
ResponseKey(i) ==
  IF Sel[i].alias # "" THEN Sel[i].name \o "_" \o Sel[i].alias ELSE Sel[i].name

Frags(i) == {j \in Children(i) : Sel[j].k = "frag"}

----------------------------------------------------------------------------
DocPaths == {path \in DOMAIN files : path[2] # "index.js"}

(* C7: every traversal starts from empty tables, so the document of a root  *)
(* field does not depend on the root fields generated before it: the same  *)
(* root field generated for two root types gives the same header and the   *)
(* same selection text, and no cross-reference key of another root field   *)
(* is in the list of a traversal.                                          *)
C7_FreshTraversalState ==
  /\ \A p1, p2 \in DocPaths :
        p1[2] = p2[2] =>
          /\ files[p1].header = files[p2].header
          /\ Text(files[p1].selection) = Text(files[p2].selection)
  /\ JustGenerated =>
        \A f \in Range(getType(RootType(pc)).fields) :
           f.name # query.name =>
              CrossReferenceKey("undefined", f.name) \notin Range(crossReferenceKeyList)

(* ra was generated for the mutation type and again for the query type     *)
C7_Witness ==
  /\ pc = "done"
  /\ <<"mutations", "ra">> \in DOMAIN files
  /\ <<"queries", "ra">> \in DOMAIN files
  /\ Len(files[<<"queries", "ra">>].header) >= 2
  /\ files[<<"queries", "ra">>].selection # <<>>

----------------------------------------------------------------------------
(* Every child of the type is filtered out or cut by the depth limit at     *)
(* depth 2                                                                 *)
AllChildrenEmptyAtRoot(typeName) ==
  \A f \in Range(getType(typeName).fields) :
     \/ f.deprecated /\ ~includeDeprecatedFields
     \/ HasGetFields(NamedTypeOf(f.type)) /\ 2 > depthLimit

====
